---- MODULE Spec2Model ----
(***************************************************************************)
(* A model of the Go-Blockchain ledger: proof-of-work blocks persisted in  *)
(* a BoltDB file, UTXO derivation by a reverse walk of the chain, and the  *)
(* CLI commands createblockchain / send / getbalance / printchain.         *)
(*                                                                         *)
(* Byte strings are sequences.  A SHA-256 digest is the one-element        *)
(* sequence holding the data that was hashed, so two digests are equal     *)
(* exactly when their pre-images are equal (collision freedom) and a       *)
(* digest is never an empty byte string.  Whether a digest, read as an     *)
(* integer, lies below the proof-of-work target is not computable from the *)
(* pre-image: it is answered by an oracle that is sampled the first time   *)
(* the program hashes a header and that repeats its answer afterwards      *)
(* (variables below / above).                                              *)
(***************************************************************************)
EXTENDS Integers, Sequences, FiniteSets, TLC

\* ------------------------------------------------------------------ bounds
\* Addresses getbalance is run with.
Addresses == {"A", "B", "C"}
\* Addresses send is run with.
Senders == {"A", "B"}
\* Addresses createblockchain is run with.
GenesisAddresses == {"A"}
\* Largest amount passed to send.
MaxAmount == 11
\* Amounts passed to send (the CLI rejects amount <= 0).
Amounts == {a \in 1..MaxAmount : a \in {3, 10} \/ a >= 11}
\* Values time.Now().Unix() returns.
MaxTime == 1
Timestamps == 1..MaxTime
\* Number of blocks the store may hold (genesis included).
MaxBlocks == 3
\* Nonces at which Run may meet its first digest below the target.
FirstNonces == {0}

\* --------------------------------------------------------------- constants
subsidy == 10
targetBits == 12
maxNonce == 10000000
genesisCoinbaseData == "The Times 03/Jan/2009 Chancellor on brink of second bailout for banks"

\* ----------------------------------------------------- hashing and encoding
\* crypto/sha256.Sum256: collision-free digest of data, never empty.
Sha256(data) == <<data>>

\* hex.EncodeToString / hex.DecodeString on a transaction id.
HexEncodeToString(b) == [hex |-> b]
HexDecodeString(s) == s.hex

\* IntToHex: the 8 big-endian bytes of a non-negative int64.
RECURSIVE BigEndian(_, _)
BigEndian(n, width) ==
    IF width = 0 THEN <<>> ELSE BigEndian(n \div 256, width - 1) \o <<n % 256>>

IntToHex(n) == BigEndian(n, 8)

\* ------------------------------------------------------------- transactions
\* gob encoding of a transaction whose ID is still nil (SetID).
GobTx(vin, vout) == [Vin |-> vin, Vout |-> vout]

\* Transaction.SetID: ID = sha256(gob(tx)) computed while tx.ID is nil.
SetID(vin, vout) == [ID |-> Sha256(GobTx(vin, vout)), Vin |-> vin, Vout |-> vout]

IsCoinbase(tx) ==
    /\ Len(tx.Vin) = 1
    /\ Len(tx.Vin[1].Txid) = 0
    /\ tx.Vin[1].Vout = -1

CanUnlockOutputWith(in, unlockingData) == in.ScriptSig = unlockingData

\* CanBeUnlockedWith without the comparison.
CanBeUnlockedWith_Always(out, unlockingData) == out.ScriptPubKey = out.ScriptPubKey

CanBeUnlockedWith(out, unlockingData) == out.ScriptPubKey = unlockingData

\* NewCoinbaseTX with the output locked to data instead of to.
NewCoinbaseTX_LockedToData(to, data) ==
    LET d == IF data = "" THEN "Reward to " \o to ELSE data
        txin == [Txid |-> <<>>, Vout |-> -1, ScriptSig |-> d]
        txout == [Value |-> subsidy, ScriptPubKey |-> d]
    IN SetID(<<txin>>, <<txout>>)

\* NewCoinbaseTX with the input's output index 0 instead of -1.
NewCoinbaseTX_IndexZero(to, data) ==
    LET d == IF data = "" THEN "Reward to " \o to ELSE data
        txin == [Txid |-> <<>>, Vout |-> 0, ScriptSig |-> d]
        txout == [Value |-> subsidy, ScriptPubKey |-> to]
    IN SetID(<<txin>>, <<txout>>)

\* NewCoinbaseTX(to, data); CreateBlockchain always passes a non-empty data.
NewCoinbaseTX(to, data) ==
    LET d == IF data = "" THEN "Reward to " \o to ELSE data
        txin == [Txid |-> <<>>, Vout |-> -1, ScriptSig |-> d]
        txout == [Value |-> subsidy, ScriptPubKey |-> to]
    IN SetID(<<txin>>, <<txout>>)

\* -------------------------------------------------------------------- blocks
\* bytes.Join(parts, []byte{}) of a sequence of byte strings.
RECURSIVE Join(_)
Join(parts) == IF parts = <<>> THEN <<>> ELSE Head(parts) \o Join(Tail(parts))

\* Block.HashTransactions: sha256 of the concatenated transaction ids.
HashTransactions(b) ==
    Sha256(Join([i \in 1..Len(b.Transactions) |-> b.Transactions[i].ID]))

\* ProofOfWork.prepareData(nonce).
prepareData(b, nonce) ==
    Join(<< b.PrevBlockHash,
            HashTransactions(b),
            IntToHex(b.Timestamp),
            IntToHex(targetBits),
            IntToHex(nonce) >>)

\* encoding/gob sends a struct value as those of its fields that differ from
\* the zero value of their type (0, "", a slice of length 0); a field left
\* out keeps, on decoding, the value the destination already has.
GobEncodeStruct(v, zero) == [f \in {g \in DOMAIN zero : v[g] # zero[g]} |-> v[f]]
GobDecodeStruct(d, into) == d @@ into

\* The zero values of TXInput, TXOutput, Transaction and Block.
ZeroTXInput == [Txid |-> <<>>, Vout |-> 0, ScriptSig |-> ""]
ZeroTXOutput == [Value |-> 0, ScriptPubKey |-> ""]
ZeroTransaction == [ID |-> <<>>, Vin |-> <<>>, Vout |-> <<>>]
ZeroBlock ==
    [Timestamp |-> 0, Transactions |-> <<>>, PrevBlockHash |-> <<>>, Hash |-> <<>>, Nonce |-> 0]

\* gob of one *Transaction of Block.Transactions, and its decoding.
GobEncodeTransaction(tx) ==
    GobEncodeStruct(
        [ID |-> tx.ID,
         Vin |-> [i \in 1..Len(tx.Vin) |-> GobEncodeStruct(tx.Vin[i], ZeroTXInput)],
         Vout |-> [i \in 1..Len(tx.Vout) |-> GobEncodeStruct(tx.Vout[i], ZeroTXOutput)]],
        ZeroTransaction)

GobDecodeTransaction(d) ==
    LET tx == GobDecodeStruct(d, ZeroTransaction)
    IN [ID |-> tx.ID,
        Vin |-> [i \in 1..Len(tx.Vin) |-> GobDecodeStruct(tx.Vin[i], ZeroTXInput)],
        Vout |-> [i \in 1..Len(tx.Vout) |-> GobDecodeStruct(tx.Vout[i], ZeroTXOutput)]]

\* gob.NewDecoder(...).Decode(into) of the bytes of a block.
GobDecodeBlock(d, into) ==
    LET block == GobDecodeStruct(d, into)
    IN [block EXCEPT
          !.Transactions = [i \in 1..Len(@) |-> GobDecodeTransaction(@[i])]]

\* Block.Serialize.
Serialize(b) ==
    GobEncodeStruct(
        [b EXCEPT !.Transactions = [i \in 1..Len(@) |-> GobEncodeTransaction(@[i])]],
        ZeroBlock)

\* DeserializeBlock decoding into a Block that holds an earlier nonce.
DeserializeBlock_IntoUsedBlock(d) == GobDecodeBlock(d, [ZeroBlock EXCEPT !.Nonce = 1])

\* DeserializeBlock: `var block Block` and Decode(&block).
DeserializeBlock(d) == GobDecodeBlock(d, ZeroBlock)


\* ----------------------------------------------------------- proof of work
VARIABLES below, above
\* below: digests the program has computed that are below the target;
\* above: digests the program has computed that are not.

\* sha256.Sum256(pow.prepareData(nonce)).
HashAt(b, nonce) == Sha256(prepareData(b, nonce))

\* hashInt.Cmp(pow.target) == -1, target = 1 << (256 - targetBits).  A digest
\* the program never computed is read as not below the target.
BelowTarget(hash) == hash \in below

\* The nonces whose digests the oracle keeps an answer for: those Run can
\* stop at, and the last one it tries.
Probed == FirstNonces \cup {maxNonce - 1}

\* ProofOfWork.Run: the values of nonce the loop can end with.  The loop ends
\* at the first nonce whose digest is below the target, or at maxNonce; a
\* digest computed before keeps the answer it had.
RunNonces(b) ==
    {k \in FirstNonces \cup {maxNonce} :
        /\ \A n \in Probed : n < k => HashAt(b, n) \notin below
        /\ k < maxNonce => HashAt(b, k) \notin above}

\* ProofOfWork.Run: the hash returned with nonce k is the last one computed.
RunHash(b, k) == IF k < maxNonce THEN HashAt(b, k) ELSE HashAt(b, maxNonce - 1)

\* The digests Run computed and found not below the target.
RunAbove(b, k) == {HashAt(b, n) : n \in {m \in Probed : m < k}}

\* The digest Run computed and found below the target, if any.
RunBelow(b, k) == IF k < maxNonce THEN {HashAt(b, k)} ELSE {}

\* ProofOfWork.Validate.
Validate(b) == BelowTarget(Sha256(prepareData(b, b.Nonce)))

\* The block NewBlock builds before mining: Hash empty, Nonce 0.
BlankBlock(transactions, prevBlockHash, now) ==
    [Timestamp |-> now, Transactions |-> transactions,
     PrevBlockHash |-> prevBlockHash, Hash |-> <<>>, Nonce |-> 0]

\* NewBlock(transactions, prevBlockHash) at time now, Run ending with nonce k.
NewBlock(transactions, prevBlockHash, now, k) ==
    LET block == BlankBlock(transactions, prevBlockHash, now)
    IN [block EXCEPT !.Hash = RunHash(block, k), !.Nonce = k]

NewGenesisBlock(coinbase, now, k) == NewBlock(<<coinbase>>, <<>>, now, k)

\* --------------------------------------------------------------- chain walk
\* BlockchainIterator.Next: the block stored under currentHash.
BlockchainIterator_Next(store, currentHash) == DeserializeBlock(store[currentHash])

\* The loop `for { block := bci.Next(); ...; if len(block.PrevBlockHash) == 0
\* { break } }` started at tip: the blocks visited, newest first.  The walk
\* stops early at a hash that is not stored (DeserializeBlock(nil) panics)
\* and after MaxBlocks + 1 blocks.
RECURSIVE Iterate(_, _, _)
Iterate(store, currentHash, fuel) ==
    IF fuel = 0 \/ currentHash \notin DOMAIN store THEN <<>>
    ELSE LET block == BlockchainIterator_Next(store, currentHash)
         IN IF Len(block.PrevBlockHash) = 0 THEN <<block>>
            ELSE <<block>> \o Iterate(store, block.PrevBlockHash, fuel - 1)

\* The walk from tip ends at a block with empty PrevBlockHash.
IterateOK(store, tip_) ==
    LET w == Iterate(store, tip_, MaxBlocks + 1)
    IN w # <<>> /\ Len(w[Len(w)].PrevBlockHash) = 0

\* ---------------------------------------------------------------------- UTXO
\* spentTXOs[txID] contains outIdx (spent is the list of appended pairs).
IsSpent(spent, txID, outIdx) ==
    \E i \in 1..Len(spent) : spent[i] = <<txID, outIdx>>

\* The output indices (0-based) of tx for which the Outputs loop appends tx.
UnspentIdx(tx, spent, address) ==
    SelectSeq([i \in 1..Len(tx.Vout) |-> i - 1],
              LAMBDA o : /\ ~IsSpent(spent, HexEncodeToString(tx.ID), o)
                         /\ CanBeUnlockedWith(tx.Vout[o + 1], address))

\* The pairs the Vin loop appends to spentTXOs.
SpentBy(tx, address) ==
    IF IsCoinbase(tx) THEN <<>>
    ELSE LET ins == SelectSeq(tx.Vin, LAMBDA in : CanUnlockOutputWith(in, address))
         IN [i \in 1..Len(ins) |-> <<HexEncodeToString(ins[i].Txid), ins[i].Vout>>]

\* One turn of `for _, tx := range block.Transactions`.
ScanTx(st, tx, address) ==
    [unspentTXs |-> st.unspentTXs \o
                    [i \in 1..Len(UnspentIdx(tx, st.spentTXOs, address)) |-> tx],
     spentTXOs |-> st.spentTXOs \o SpentBy(tx, address)]

RECURSIVE ScanTxs(_, _, _)
ScanTxs(st, txs, address) ==
    IF txs = <<>> THEN st
    ELSE ScanTxs(ScanTx(st, Head(txs), address), Tail(txs), address)

RECURSIVE ScanBlocks(_, _, _)
ScanBlocks(st, chain, address) ==
    IF chain = <<>> THEN st
    ELSE ScanBlocks(ScanTxs(st, Head(chain).Transactions, address), Tail(chain), address)

\* Blockchain.FindUnspentTransactions(address) on the chain under tip.
FindUnspentTransactions(store, tip_, address) ==
    ScanBlocks([unspentTXs |-> <<>>, spentTXOs |-> <<>>],
               Iterate(store, tip_, MaxBlocks + 1), address).unspentTXs

\* FindUTXO collecting every output of a listed transaction.
OutsOf_Every(tx, address) == tx.Vout

\* The outputs of tx that address can unlock.
OutsOf(tx, address) == SelectSeq(tx.Vout, LAMBDA out : CanBeUnlockedWith(out, address))

\* Blockchain.FindUTXO(address).
FindUTXO(store, tip_, address) ==
    LET unspentTransactions == FindUnspentTransactions(store, tip_, address)
    IN Join([i \in 1..Len(unspentTransactions) |-> OutsOf(unspentTransactions[i], address)])

RECURSIVE SumValues(_)
SumValues(outs) == IF outs = <<>> THEN 0 ELSE Head(outs).Value + SumValues(Tail(outs))

\* CLI.getBalance: the sum of the values FindUTXO returns.
Balance(store, tip_, address) == SumValues(FindUTXO(store, tip_, address))


\* The outputs address can unlock in unspentTXs, in the order the Work loop
\* of FindSpendableOutputs meets them.
RECURSIVE Candidates(_, _)
Candidates(unspentTXs, address) ==
    IF unspentTXs = <<>> THEN <<>>
    ELSE LET tx == Head(unspentTXs)
             idx == SelectSeq([i \in 1..Len(tx.Vout) |-> i - 1],
                              LAMBDA o : CanBeUnlockedWith(tx.Vout[o + 1], address))
         IN [i \in 1..Len(idx) |-> [txID |-> HexEncodeToString(tx.ID),
                                    outIdx |-> idx[i],
                                    Value |-> tx.Vout[idx[i] + 1].Value]]
            \o Candidates(Tail(unspentTXs), address)

\* The Work loop: an output is taken while accumulated < amount, and the
\* loop is left as soon as accumulated >= amount.
RECURSIVE Work(_, _, _, _)
Work(cands, amount, accumulated, chosen) ==
    IF cands = <<>> THEN [accumulated |-> accumulated, chosen |-> chosen]
    ELSE IF accumulated < amount
         THEN LET acc2 == accumulated + Head(cands).Value
                  chosen2 == Append(chosen, Head(cands))
              IN IF acc2 >= amount
                 THEN [accumulated |-> acc2, chosen |-> chosen2]
                 ELSE Work(Tail(cands), amount, acc2, chosen2)
         ELSE Work(Tail(cands), amount, accumulated, chosen)

\* Blockchain.FindSpendableOutputs(address, amount): accumulated and the map
\* unspentOutputs (txID -> output indices, in the order they were appended).
FindSpendableOutputs(store, tip_, address, amount) ==
    LET w == Work(Candidates(FindUnspentTransactions(store, tip_, address), address),
                  amount, 0, <<>>)
        keys == {w.chosen[i].txID : i \in 1..Len(w.chosen)}
    IN [accumulated |-> w.accumulated,
        unspentOutputs |->
            [k \in keys |->
                LET mine == SelectSeq(w.chosen, LAMBDA c : c.txID = k)
                IN [i \in 1..Len(mine) |-> mine[i].outIdx]]]

\* The orders in which `for txid, outs := range validOutputs` can visit the
\* keys of a Go map.
RangeOrders(m) ==
    {f \in [1..Cardinality(DOMAIN m) -> DOMAIN m] :
        \A i, j \in DOMAIN f : i # j => f[i] # f[j]}

\* NewUTXOTransaction with the inputs carrying the recipient's address.
NewUTXOTransaction_SignedByRecipient(from, to, amount, acc, validOutputs, order) ==
    LET inputs == Join([i \in 1..Len(order) |->
                        [j \in 1..Len(validOutputs[order[i]]) |->
                            [Txid |-> HexDecodeString(order[i]),
                             Vout |-> validOutputs[order[i]][j],
                             ScriptSig |-> to]]])
        outputs == <<[Value |-> amount, ScriptPubKey |-> to]>> \o
                   (IF acc > amount
                    THEN <<[Value |-> acc - amount, ScriptPubKey |-> from]>>
                    ELSE <<>>)
    IN SetID(inputs, outputs)

\* NewUTXOTransaction appending the change output also when nothing is left.
NewUTXOTransaction_AlwaysChange(from, to, amount, acc, validOutputs, order) ==
    LET inputs == Join([i \in 1..Len(order) |->
                        [j \in 1..Len(validOutputs[order[i]]) |->
                            [Txid |-> HexDecodeString(order[i]),
                             Vout |-> validOutputs[order[i]][j],
                             ScriptSig |-> from]]])
        outputs == <<[Value |-> amount, ScriptPubKey |-> to]>> \o
                   (IF acc >= amount
                    THEN <<[Value |-> acc - amount, ScriptPubKey |-> from]>>
                    ELSE <<>>)
    IN SetID(inputs, outputs)

\* NewUTXOTransaction(from, to, amount, bc) once acc >= amount, the map being
\* ranged over in the given order.
NewUTXOTransaction(from, to, amount, acc, validOutputs, order) ==
    LET inputs == Join([i \in 1..Len(order) |->
                        [j \in 1..Len(validOutputs[order[i]]) |->
                            [Txid |-> HexDecodeString(order[i]),
                             Vout |-> validOutputs[order[i]][j],
                             ScriptSig |-> from]]])
        outputs == <<[Value |-> amount, ScriptPubKey |-> to]>> \o
                   (IF acc > amount
                    THEN <<[Value |-> acc - amount, ScriptPubKey |-> from]>>
                    ELSE <<>>)
    IN SetID(inputs, outputs)


\* ------------------------------------------------------------ program state
VARIABLES
    dbFile,     \* the file blockchain.db exists (dbExists)
    bucket,     \* the bucket "blocks" exists in the committed database
    blocks,     \* committed bucket: block hash -> serialized block
    l,          \* committed value of the key "l" (<<>> when absent)
    txn,        \* the bucket as seen inside the open db.Update transaction
    pc,         \* position of the running command ("idle": none is running)
    cmd,        \* the running command and its flags
    tip,        \* bc.tip of the running command's Blockchain (<<>>: no handle)
    newTx,      \* the transaction NewUTXOTransaction returned
    newBlock,   \* the block NewBlock returned
    result,     \* how the last command ended
    out,        \* what the last getbalance / printchain printed
    miner,      \* goroutines running send on one shared Blockchain handle
    reader,     \* a goroutine walking the chain through the same handle
    pow         \* a call of ProofOfWork.Run followed through its loop

vars == <<dbFile, bucket, blocks, l, txn, pc, cmd, tip, newTx, newBlock,
          result, out, below, above, miner, reader, pow>>

\* The goroutines of a process that shares its handle; the CLI starts none.
goroutines == <<miner, reader>>
Miners == {"m1", "m2"}
NoMiner == [pc |-> "idle", tx |-> <<>>, lastHash |-> <<>>, newBlock |-> <<>>]
NoReader == [pc |-> "idle", start |-> <<>>, currentHash |-> <<>>, visited |-> <<>>]

\* No call of Run is being followed.
NoPow == [pc |-> "idle", block |-> <<>>, nonce |-> 0, hash |-> <<>>]

NoCmd == [op |-> "none", address |-> "", from |-> "", to |-> "", amount |-> 0]
NoTxn == [bucket |-> FALSE, blocks |-> <<>>, l |-> <<>>]
NoOut == [balance |-> 0, pow |-> <<>>]

\* b.Put dropping the keys already in the bucket.
Put_Truncating(store, key, value) == [h \in {key} |-> value]

\* b.Put(key, value) on a bucket's key/value map.
Put(store, key, value) ==
    [h \in DOMAIN store \cup {key} |-> IF h = key THEN value ELSE store[h]]

\* dbExists().
dbExists == dbFile

\* NewBlockchain without the dbExists check.
NewBlockchain_NoExistsCheck ==
    IF ~bucket THEN "panic" ELSE "ok"

\* How NewBlockchain ends: os.Exit(1) when the file is missing, a nil
\* dereference in b.Get when the file has no bucket, else a handle.
NewBlockchain ==
    IF ~dbExists THEN "NotFound"
    ELSE IF ~bucket THEN "panic"
    ELSE "ok"

\* time.Now().Unix() as NewBlock reads it: the clock does not run backwards,
\* so it is not before the timestamp of the committed tip block.
Now ==
    {t \in Timestamps :
        l \in DOMAIN blocks => t >= DeserializeBlock(blocks[l]).Timestamp}

Init ==
    /\ dbFile = FALSE
    /\ bucket = FALSE
    /\ blocks = <<>>
    /\ l = <<>>
    /\ txn = NoTxn
    /\ pc = "idle"
    /\ cmd = NoCmd
    /\ tip = <<>>
    /\ newTx = <<>>
    /\ newBlock = <<>>
    /\ result = "none"
    /\ out = NoOut
    /\ below = {}
    /\ above = {}
    /\ miner = [m \in Miners |-> NoMiner]
    /\ reader = NoReader
    /\ pow = NoPow

\* A command ends: its outcome is printed, the database is closed.
Ended(res) ==
    /\ pc' = "exit"
    /\ cmd' = NoCmd
    /\ tip' = <<>>
    /\ newTx' = <<>>
    /\ newBlock' = <<>>
    /\ txn' = NoTxn
    /\ result' = res

\* ---------------------------------------------------------- createblockchain
\* CreateBlockchain: dbExists check and bolt.Open (which creates the file).
CreateBlockchain_Open(address) ==
    /\ pc = "idle"
    /\ UNCHANGED <<goroutines, pow>>
    /\ out' = NoOut
    /\ UNCHANGED <<bucket, blocks, l, below, above>>
    /\ IF dbExists
       THEN /\ Ended("AlreadyExists")
            /\ UNCHANGED dbFile
       ELSE /\ dbFile' = TRUE
            /\ pc' = "create_genesis"
            /\ cmd' = [NoCmd EXCEPT !.op = "createblockchain", !.address = address]
            /\ result' = "running"
            /\ UNCHANGED <<txn, tip, newTx, newBlock>>

\* Inside db.Update: NewCoinbaseTX, NewGenesisBlock (mining), CreateBucket.
CreateBlockchain_Genesis ==
    /\ pc = "create_genesis"
    /\ UNCHANGED <<goroutines, pow>>
    /\ \E now \in Now :
        LET cbtx == NewCoinbaseTX(cmd.address, genesisCoinbaseData)
            blank == BlankBlock(<<cbtx>>, <<>>, now)
        IN \E k \in RunNonces(blank) :
            /\ newBlock' = NewGenesisBlock(cbtx, now, k)
            /\ below' = below \cup RunBelow(blank, k)
            /\ above' = above \cup RunAbove(blank, k)
    /\ txn' = [bucket |-> TRUE, blocks |-> blocks, l |-> l]
    /\ pc' = "create_put"
    /\ UNCHANGED <<dbFile, bucket, blocks, l, cmd, tip, newTx, result, out>>

\* b.Put(genesis.Hash, genesis.Serialize()).
CreateBlockchain_PutBlock ==
    /\ pc = "create_put"
    /\ UNCHANGED <<goroutines, pow>>
    /\ txn' = [txn EXCEPT !.blocks = Put(txn.blocks, newBlock.Hash, Serialize(newBlock))]
    /\ pc' = "create_puttip"
    /\ UNCHANGED <<dbFile, bucket, blocks, l, cmd, tip, newTx, newBlock,
                   result, out, below, above>>

\* b.Put("l", genesis.Hash); tip = genesis.Hash.
CreateBlockchain_PutTip ==
    /\ pc = "create_puttip"
    /\ UNCHANGED <<goroutines, pow>>
    /\ txn' = [txn EXCEPT !.l = newBlock.Hash]
    /\ tip' = newBlock.Hash
    /\ pc' = "create_commit"
    /\ UNCHANGED <<dbFile, bucket, blocks, l, cmd, newTx, newBlock,
                   result, out, below, above>>

\* db.Update returns: the transaction commits.  createBlockchain then closes
\* the database and prints "Done!".
CreateBlockchain_Commit ==
    /\ pc = "create_commit"
    /\ UNCHANGED <<goroutines, pow>>
    /\ bucket' = txn.bucket
    /\ blocks' = txn.blocks
    /\ l' = txn.l
    /\ Ended("Done")
    /\ UNCHANGED <<dbFile, out, below, above>>

\* ---------------------------------------------------------------------- send
\* The funds check off by one.
NotEnoughFunds_OffByOne(acc, amount) == acc < amount - 1

\* NewUTXOTransaction: `if acc < amount { log.Panic("ERROR: Not enough funds") }`.
NotEnoughFunds(acc, amount) == acc < amount

\* CLI.send up to its call of MineBlock: NewBlockchain(from), then
\* NewUTXOTransaction(from, to, amount, bc).  Neither writes to the database.
Send(from, to, amount) ==
    /\ pc = "idle"
    /\ UNCHANGED <<goroutines, pow>>
    /\ UNCHANGED <<dbFile, bucket, blocks, l, out, below, above>>
    /\ IF NewBlockchain # "ok" THEN Ended(NewBlockchain)
       ELSE IF ~IterateOK(blocks, l) THEN Ended("panic")
       ELSE LET s == FindSpendableOutputs(blocks, l, from, amount)
            IN IF NotEnoughFunds(s.accumulated, amount)
               THEN Ended("InsufficientFunds")
               ELSE /\ Cardinality(DOMAIN blocks) < MaxBlocks
                    /\ \E order \in RangeOrders(s.unspentOutputs) :
                        newTx' = NewUTXOTransaction(from, to, amount,
                                                    s.accumulated, s.unspentOutputs, order)
                    /\ cmd' = [NoCmd EXCEPT !.op = "send", !.from = from, !.to = to,
                                            !.amount = amount]
                    /\ tip' = l
                    /\ result' = "running"
                    /\ pc' = "mine_new"
                    /\ UNCHANGED <<txn, newBlock>>

\* MineBlock: db.View reads "l", NewBlock mines on top of it.
MineBlock_NewBlock ==
    /\ pc = "mine_new"
    /\ UNCHANGED <<goroutines, pow>>
    /\ \E now \in Now :
        LET lastHash == l
            blank == BlankBlock(<<newTx>>, lastHash, now)
        IN \E k \in RunNonces(blank) :
            /\ newBlock' = NewBlock(<<newTx>>, lastHash, now, k)
            /\ below' = below \cup RunBelow(blank, k)
            /\ above' = above \cup RunAbove(blank, k)
    /\ txn' = [bucket |-> bucket, blocks |-> blocks, l |-> l]
    /\ pc' = "mine_put"
    /\ UNCHANGED <<dbFile, bucket, blocks, l, cmd, tip, newTx, result, out>>

\* MineBlock storing the new block under the key of the block before it.
MineBlock_PutBlock_AtLastHash ==
    /\ pc = "mine_put"
    /\ UNCHANGED <<goroutines, pow>>
    /\ txn' = [txn EXCEPT !.blocks = Put(txn.blocks, newBlock.PrevBlockHash,
                                         Serialize(newBlock))]
    /\ pc' = "mine_puttip"
    /\ UNCHANGED <<dbFile, bucket, blocks, l, cmd, tip, newTx, newBlock,
                   result, out, below, above>>

\* b.Put(newBlock.Hash, newBlock.Serialize()).
MineBlock_PutBlock ==
    /\ pc = "mine_put"
    /\ UNCHANGED <<goroutines, pow>>
    /\ txn' = [txn EXCEPT !.blocks = Put(txn.blocks, newBlock.Hash, Serialize(newBlock))]
    /\ pc' = "mine_puttip"
    /\ UNCHANGED <<dbFile, bucket, blocks, l, cmd, tip, newTx, newBlock,
                   result, out, below, above>>

\* MineBlock writing the key "l" outside the transaction.
MineBlock_PutTip_Durable ==
    /\ pc = "mine_puttip"
    /\ UNCHANGED <<goroutines, pow>>
    /\ l' = newBlock.Hash
    /\ txn' = [txn EXCEPT !.l = newBlock.Hash]
    /\ tip' = newBlock.Hash
    /\ pc' = "mine_commit"
    /\ UNCHANGED <<dbFile, bucket, blocks, cmd, newTx, newBlock,
                   result, out, below, above>>

\* MineBlock writing the key "l" and leaving bc.tip as it was.
MineBlock_PutTip_StaleHandle ==
    /\ pc = "mine_puttip"
    /\ UNCHANGED <<goroutines, pow>>
    /\ txn' = [txn EXCEPT !.l = newBlock.Hash]
    /\ pc' = "mine_commit"
    /\ UNCHANGED <<dbFile, bucket, blocks, l, cmd, tip, newTx, newBlock,
                   result, out, below, above>>

\* b.Put("l", newBlock.Hash); bc.tip = newBlock.Hash.
MineBlock_PutTip ==
    /\ pc = "mine_puttip"
    /\ UNCHANGED <<goroutines, pow>>
    /\ txn' = [txn EXCEPT !.l = newBlock.Hash]
    /\ tip' = newBlock.Hash
    /\ pc' = "mine_commit"
    /\ UNCHANGED <<dbFile, bucket, blocks, l, cmd, newTx, newBlock,
                   result, out, below, above>>

\* db.Update returns: the transaction commits.  send then prints "Success!"
\* and closes the database.
MineBlock_Commit ==
    /\ pc = "mine_commit"
    /\ UNCHANGED <<goroutines, pow>>
    /\ bucket' = txn.bucket
    /\ blocks' = txn.blocks
    /\ l' = txn.l
    /\ Ended("Success")
    /\ UNCHANGED <<dbFile, out, below, above>>

\* ---------------------------------------------------- getbalance, printchain
\* CLI.getBalance(address).
GetBalance(address) ==
    /\ pc = "idle"
    /\ UNCHANGED <<goroutines, pow>>
    /\ UNCHANGED <<dbFile, bucket, blocks, l, below, above>>
    /\ IF NewBlockchain # "ok" THEN Ended(NewBlockchain) /\ out' = NoOut
       ELSE IF ~IterateOK(blocks, l) THEN Ended("panic") /\ out' = NoOut
       ELSE /\ Ended("ok")
            /\ out' = [NoOut EXCEPT !.balance = Balance(blocks, l, address)]

\* CLI.printChain with a traversal that stores its position under "l".
PrintChain_MovesStoredTip ==
    /\ pc = "idle"
    /\ UNCHANGED <<goroutines, pow>>
    /\ UNCHANGED <<dbFile, bucket, blocks, below, above>>
    /\ IF NewBlockchain # "ok" THEN Ended(NewBlockchain) /\ out' = NoOut /\ l' = l
       ELSE IF ~IterateOK(blocks, l) THEN Ended("panic") /\ out' = NoOut /\ l' = l
       ELSE /\ Ended("ok")
            /\ LET w == Iterate(blocks, l, MaxBlocks + 1)
               IN /\ out' = [NoOut EXCEPT !.pow = [i \in 1..Len(w) |-> Validate(w[i])]]
                  /\ l' = w[Len(w)].Hash

\* CLI.printChain: PoW validity of every block, newest first.
PrintChain ==
    /\ pc = "idle"
    /\ UNCHANGED <<goroutines, pow>>
    /\ UNCHANGED <<dbFile, bucket, blocks, l, below, above>>
    /\ IF NewBlockchain # "ok" THEN Ended(NewBlockchain) /\ out' = NoOut
       ELSE IF ~IterateOK(blocks, l) THEN Ended("panic") /\ out' = NoOut
       ELSE /\ Ended("ok")
            /\ out' = LET w == Iterate(blocks, l, MaxBlocks + 1)
                      IN [NoOut EXCEPT !.pow = [i \in 1..Len(w) |-> Validate(w[i])]]

\* --------------------------------------------------------------------- crash
\* The digests Run computes for the blocks stored in store, at any nonce.
StoredDigests(store) ==
    {HashAt(DeserializeBlock(store[h]), n) : h \in DOMAIN store, n \in Probed}

\* The process dies while a command runs: an open transaction is rolled
\* back, what was committed (and the file bolt.Open created) stays.  The
\* oracle's answers about a block that was mined but never committed are
\* dropped with it: no state of the program holds that block any more.
Crash ==
    /\ pc \notin {"idle", "exit"}
    /\ UNCHANGED <<goroutines, pow>>
    /\ Ended("crashed")
    /\ below' = below \cap StoredDigests(blocks)
    /\ above' = above \cap StoredDigests(blocks)
    /\ UNCHANGED <<dbFile, bucket, blocks, l, out>>

\* The process exits; the next command starts a new one.
Exit ==
    /\ pc = "exit"
    /\ UNCHANGED <<goroutines, pow>>
    /\ pc' = "idle"
    /\ result' = "none"
    /\ out' = NoOut
    /\ UNCHANGED <<dbFile, bucket, blocks, l, txn, cmd, tip, newTx, newBlock,
                   below, above>>

Next ==
    \/ \E address \in GenesisAddresses : CreateBlockchain_Open(address)
    \/ CreateBlockchain_Genesis
    \/ CreateBlockchain_PutBlock
    \/ CreateBlockchain_PutTip
    \/ CreateBlockchain_Commit
    \/ \E from, to \in Senders, amount \in Amounts : Send(from, to, amount)
    \/ MineBlock_NewBlock
    \/ MineBlock_PutBlock
    \/ MineBlock_PutTip
    \/ MineBlock_Commit
    \/ \E address \in Addresses : GetBalance(address)
    \/ PrintChain
    \/ Crash
    \/ Exit

Spec == Init /\ [][Next]_vars



\* ------------------------------------------------- one handle, several callers
\* A process that opens the ledger once (NewBlockchain) and lets goroutines
\* call send's body and walk the chain on the one *Blockchain it got.  The
\* code takes no lock of its own; bolt runs one read-write transaction at a
\* time and gives every db.View the last committed state.

\* NewBlockchain in a process that keeps the handle.
Shared_NewBlockchain ==
    /\ pc = "idle"
    /\ NewBlockchain = "ok"
    /\ pc' = "shared"
    /\ tip' = l
    /\ result' = "running"
    /\ UNCHANGED <<dbFile, bucket, blocks, l, txn, cmd, newTx, newBlock, out,
                   below, above, miner, reader, pow>>

\* The handle is in use and no goroutine has panicked.
Serving == pc = "shared" /\ result = "running"

\* The calls of MineBlock that have not returned.
Mining == {m \in Miners : miner[m].pc # "idle"}

\* Goroutine m: NewUTXOTransaction(from, to, amount, bc), walking from bc.tip.
\* A panic (a block missing under the iterator, not enough funds) ends the
\* process.
Go_NewUTXOTransaction(m, from, to, amount) ==
    /\ Serving
    /\ miner[m].pc = "idle"
    /\ UNCHANGED <<dbFile, bucket, blocks, l, txn, pc, cmd, tip, newTx, newBlock,
                   out, below, above, reader, pow>>
    /\ IF ~IterateOK(blocks, tip)
       THEN result' = "panic" /\ UNCHANGED miner
       ELSE LET s == FindSpendableOutputs(blocks, tip, from, amount)
            IN IF NotEnoughFunds(s.accumulated, amount)
               THEN result' = "InsufficientFunds" /\ UNCHANGED miner
               ELSE /\ Cardinality(DOMAIN blocks) + Cardinality(Mining) < MaxBlocks
                    /\ \E order \in RangeOrders(s.unspentOutputs) :
                        miner' = [miner EXCEPT ![m] =
                                    [NoMiner EXCEPT
                                       !.pc = "view",
                                       !.tx = NewUTXOTransaction(from, to, amount,
                                                  s.accumulated, s.unspentOutputs, order)]]
                    /\ UNCHANGED result

\* Goroutine m, MineBlock: bc.db.View reads the key "l".
Go_MineBlock_View(m) ==
    /\ Serving
    /\ miner[m].pc = "view"
    /\ miner' = [miner EXCEPT ![m].lastHash = l, ![m].pc = "new"]
    /\ UNCHANGED <<dbFile, bucket, blocks, l, txn, pc, cmd, tip, newTx, newBlock,
                   result, out, below, above, reader, pow>>

\* Goroutine m, MineBlock: NewBlock(transactions, lastHash).
Go_MineBlock_NewBlock(m) ==
    /\ Serving
    /\ miner[m].pc = "new"
    /\ \E now \in Now :
        LET blank == BlankBlock(<<miner[m].tx>>, miner[m].lastHash, now)
        IN \E k \in RunNonces(blank) :
            /\ miner' = [miner EXCEPT
                            ![m].newBlock = NewBlock(<<miner[m].tx>>, miner[m].lastHash, now, k),
                            ![m].pc = "put"]
            /\ below' = below \cup RunBelow(blank, k)
            /\ above' = above \cup RunAbove(blank, k)
    /\ UNCHANGED <<dbFile, bucket, blocks, l, txn, pc, cmd, tip, newTx, newBlock,
                   result, out, reader, pow>>

\* Goroutine m, MineBlock: bc.db.Update begins once no other read-write
\* transaction is open; b.Put(newBlock.Hash, newBlock.Serialize()).
Go_MineBlock_PutBlock(m) ==
    /\ Serving
    /\ miner[m].pc = "put"
    /\ txn = NoTxn
    /\ txn' = [bucket |-> bucket,
               blocks |-> Put(blocks, miner[m].newBlock.Hash, Serialize(miner[m].newBlock)),
               l |-> l]
    /\ miner' = [miner EXCEPT ![m].pc = "puttip"]
    /\ UNCHANGED <<dbFile, bucket, blocks, l, pc, cmd, tip, newTx, newBlock,
                   result, out, below, above, reader, pow>>

\* Goroutine m, MineBlock: b.Put("l", newBlock.Hash); bc.tip = newBlock.Hash.
Go_MineBlock_PutTip(m) ==
    /\ Serving
    /\ miner[m].pc = "puttip"
    /\ txn' = [txn EXCEPT !.l = miner[m].newBlock.Hash]
    /\ tip' = miner[m].newBlock.Hash
    /\ miner' = [miner EXCEPT ![m].pc = "commit"]
    /\ UNCHANGED <<dbFile, bucket, blocks, l, pc, cmd, newTx, newBlock,
                   result, out, below, above, reader, pow>>

\* Goroutine m, MineBlock: db.Update returns, the transaction commits.
Go_MineBlock_Commit(m) ==
    /\ Serving
    /\ miner[m].pc = "commit"
    /\ bucket' = txn.bucket
    /\ blocks' = txn.blocks
    /\ l' = txn.l
    /\ txn' = NoTxn
    /\ miner' = [miner EXCEPT ![m] = NoMiner]
    /\ UNCHANGED <<dbFile, pc, cmd, tip, newTx, newBlock, result, out, below,
                   above, reader, pow>>

\* The reading goroutine: bc.Iterator() copies bc.tip.
Go_Iterator ==
    /\ Serving
    /\ reader.pc = "idle"
    /\ reader' = [NoReader EXCEPT !.pc = "next", !.start = tip, !.currentHash = tip]
    /\ UNCHANGED <<dbFile, bucket, blocks, l, txn, pc, cmd, tip, newTx, newBlock,
                   result, out, below, above, miner, pow>>

\* The reading goroutine: bci.Next() in a db.View of its own; DeserializeBlock
\* panics on the nil b.Get returns for a key that is not committed.
Go_Next ==
    /\ Serving
    /\ reader.pc = "next"
    /\ UNCHANGED <<dbFile, bucket, blocks, l, txn, pc, cmd, tip, newTx, newBlock,
                   out, below, above, miner, pow>>
    /\ IF reader.currentHash \notin DOMAIN blocks
       THEN result' = "panic" /\ reader' = [reader EXCEPT !.pc = "panic"]
       ELSE LET block == BlockchainIterator_Next(blocks, reader.currentHash)
            IN /\ reader' = [reader EXCEPT
                               !.visited = Append(@, block),
                               !.currentHash = block.PrevBlockHash,
                               !.pc = IF Len(block.PrevBlockHash) = 0
                                      THEN "done" ELSE "next"]
               /\ UNCHANGED result

\* The reading goroutine leaves its loop at the genesis block.
Go_Break ==
    /\ Serving
    /\ reader.pc = "done"
    /\ reader' = NoReader
    /\ UNCHANGED <<dbFile, bucket, blocks, l, txn, pc, cmd, tip, newTx, newBlock,
                   result, out, below, above, miner, pow>>

NextShared ==
    \/ \E address \in GenesisAddresses : CreateBlockchain_Open(address)
    \/ CreateBlockchain_Genesis
    \/ CreateBlockchain_PutBlock
    \/ CreateBlockchain_PutTip
    \/ CreateBlockchain_Commit
    \/ Exit
    \/ Shared_NewBlockchain
    \/ \E m \in Miners, from, to \in Senders, amount \in Amounts :
            Go_NewUTXOTransaction(m, from, to, amount)
    \/ \E m \in Miners : Go_MineBlock_View(m)
    \/ \E m \in Miners : Go_MineBlock_NewBlock(m)
    \/ \E m \in Miners : Go_MineBlock_PutBlock(m)
    \/ \E m \in Miners : Go_MineBlock_PutTip(m)
    \/ \E m \in Miners : Go_MineBlock_Commit(m)
    \/ Go_Iterator
    \/ Go_Next
    \/ Go_Break

SpecShared == Init /\ [][NextShared]_vars



\* ------------------------------------------------------- a commit that fails
\* The commit of MineBlock's read-write transaction fails (disk full, I/O
\* error): bolt rolls the transaction back and db.Update returns the error.
\* The closure has run to its end by then, `bc.tip = newBlock.Hash` included.
MineBlock_CommitFails ==
    /\ pc = "mine_commit"
    /\ txn' = NoTxn
    /\ result' = "StoreFailure"
    /\ pc' = "mine_panic"
    /\ UNCHANGED <<dbFile, bucket, blocks, l, cmd, tip, newTx, newBlock, out,
                   below, above, miner, reader, pow>>

\* `if err != nil { log.Panic(err) }` after db.Update: the process ends.
MineBlock_Panic ==
    /\ pc = "mine_panic"
    /\ Ended("StoreFailure")
    /\ below' = below \cap StoredDigests(blocks)
    /\ above' = above \cap StoredDigests(blocks)
    /\ UNCHANGED <<dbFile, bucket, blocks, l, out, miner, reader, pow>>

NextStoreFailure ==
    \/ Next
    \/ MineBlock_CommitFails
    \/ MineBlock_Panic

SpecStoreFailure == Init /\ [][NextStoreFailure]_vars


\* ------------------------------------------- the transaction builders, called
\* NewCoinbaseTX and NewUTXOTransaction called as functions, with every
\* argument their signatures admit: CLI.Run lets only amounts > 0 through to
\* send, the functions themselves take any int.  The ledger they are called
\* on is one that createblockchain and send have built.

\* The amounts NewUTXOTransaction is called with.
AnyAmounts == Amounts \cup {0, 0 - MaxAmount}

\* The data NewCoinbaseTX is called with.
CoinbaseData == {"", genesisCoinbaseData}

\* tx := NewCoinbaseTX(to, data).
Call_NewCoinbaseTX(to, data) ==
    /\ pc = "idle"
    /\ pc' = "built"
    /\ cmd' = [NoCmd EXCEPT !.op = "NewCoinbaseTX", !.to = to]
    /\ newTx' = NewCoinbaseTX(to, data)
    /\ result' = "running"
    /\ UNCHANGED <<dbFile, bucket, blocks, l, txn, tip, newBlock, out,
                   below, above, miner, reader, pow>>

\* bc := NewBlockchain(from); tx := NewUTXOTransaction(from, to, amount, bc).
Call_NewUTXOTransaction(from, to, amount) ==
    /\ pc = "idle"
    /\ NewBlockchain = "ok"
    /\ IterateOK(blocks, l)
    /\ UNCHANGED <<dbFile, bucket, blocks, l, out, below, above, miner, reader, pow>>
    /\ LET s == FindSpendableOutputs(blocks, l, from, amount)
       IN IF NotEnoughFunds(s.accumulated, amount)
          THEN Ended("InsufficientFunds")
          ELSE /\ \E order \in RangeOrders(s.unspentOutputs) :
                    newTx' = NewUTXOTransaction(from, to, amount,
                                                s.accumulated, s.unspentOutputs, order)
               /\ cmd' = [NoCmd EXCEPT !.op = "NewUTXOTransaction", !.from = from,
                                       !.to = to, !.amount = amount]
               /\ tip' = l
               /\ result' = "running"
               /\ pc' = "built"
               /\ UNCHANGED <<txn, newBlock>>

\* The caller drops the transaction and closes the ledger.
Call_Return ==
    /\ pc = "built"
    /\ Ended("ok")
    /\ UNCHANGED <<dbFile, bucket, blocks, l, out, below, above, miner, reader, pow>>

NextCall ==
    \/ \E address \in GenesisAddresses : CreateBlockchain_Open(address)
    \/ CreateBlockchain_Genesis
    \/ CreateBlockchain_PutBlock
    \/ CreateBlockchain_PutTip
    \/ CreateBlockchain_Commit
    \/ \E from, to \in Senders, amount \in Amounts : Send(from, to, amount)
    \/ MineBlock_NewBlock
    \/ MineBlock_PutBlock
    \/ MineBlock_PutTip
    \/ MineBlock_Commit
    \/ Exit
    \/ \E to \in GenesisAddresses, data \in CoinbaseData : Call_NewCoinbaseTX(to, data)
    \/ \E from \in Senders, to \in GenesisAddresses, amount \in AnyAmounts :
            Call_NewUTXOTransaction(from, to, amount)
    \/ Call_Return

SpecCall == Init /\ [][NextCall]_vars

\* ------------------------------------------------ ProofOfWork.Run, step by step
\* The loop of Run followed one nonce at a time, on blocks NewGenesisBlock
\* hands to it.  Whether a digest is below the target is decided when the
\* loop first computes it and stays decided (below, above).

\* How many nonces of one block the loop is followed through.
MaxProbes == 3

\* The blocks Run is called on: a genesis block for each address.
RunBlocks ==
    {BlankBlock(<<NewCoinbaseTX(a, genesisCoinbaseData)>>, <<>>, MaxTime) : a \in Addresses}

\* pow.Run() is called on block b: nonce := 0.
Run_Start(b) ==
    /\ pc = "idle"
    /\ pow.pc = "idle"
    /\ pow' = [NoPow EXCEPT !.pc = "loop", !.block = b]
    /\ UNCHANGED <<dbFile, bucket, blocks, l, txn, pc, cmd, tip, newTx, newBlock,
                   result, out, below, above, miner, reader>>

\* One pass of the loop that counts the nonce also when it breaks.
Run_Try_CountsTheHit ==
    /\ pow.pc = "loop"
    /\ pow.nonce < maxNonce
    /\ pow.nonce < MaxProbes
    /\ LET hash == HashAt(pow.block, pow.nonce)
       IN \/ /\ hash \notin above
             /\ below' = below \cup {hash}
             /\ pow' = [pow EXCEPT !.hash = hash, !.nonce = @ + 1, !.pc = "return"]
             /\ UNCHANGED above
          \/ /\ hash \notin below
             /\ above' = above \cup {hash}
             /\ pow' = [pow EXCEPT !.hash = hash, !.nonce = @ + 1]
             /\ UNCHANGED below
    /\ UNCHANGED <<dbFile, bucket, blocks, l, txn, pc, cmd, tip, newTx, newBlock,
                   result, out, miner, reader>>

\* One pass of `for nonce < maxNonce`: hash = sha256(prepareData(nonce));
\* break if it is below the target, nonce++ otherwise.
Run_Try ==
    /\ pow.pc = "loop"
    /\ pow.nonce < maxNonce
    /\ pow.nonce < MaxProbes
    /\ LET hash == HashAt(pow.block, pow.nonce)
       IN \/ /\ hash \notin above
             /\ below' = below \cup {hash}
             /\ pow' = [pow EXCEPT !.hash = hash, !.pc = "return"]
             /\ UNCHANGED above
          \/ /\ hash \notin below
             /\ above' = above \cup {hash}
             /\ pow' = [pow EXCEPT !.hash = hash, !.nonce = @ + 1]
             /\ UNCHANGED below
    /\ UNCHANGED <<dbFile, bucket, blocks, l, txn, pc, cmd, tip, newTx, newBlock,
                   result, out, miner, reader>>

\* `return nonce, hash[:]` after the break.
Run_Return ==
    /\ pow.pc = "return"
    /\ pow' = NoPow
    /\ UNCHANGED <<dbFile, bucket, blocks, l, txn, pc, cmd, tip, newTx, newBlock,
                   result, out, below, above, miner, reader>>

NextRun ==
    \/ \E b \in RunBlocks : Run_Start(b)
    \/ Run_Try
    \/ Run_Return

SpecRun == Init /\ [][NextRun]_vars

\* --------------------------------------- MineBlock with several transactions
\* MineBlock takes any list of transactions; CLI.send passes one.  Here it is
\* called with two: a spend NewUTXOTransaction built, followed by a
\* transaction that spends one output of the first.

\* The transaction a caller builds by hand to spend output idx of tx, signed
\* by the address that output is locked to, paying its whole value to `to`.
SpendOutputOf(tx, idx, to) ==
    SetID(<<[Txid |-> tx.ID, Vout |-> idx, ScriptSig |-> tx.Vout[idx + 1].ScriptPubKey]>>,
          <<[Value |-> tx.Vout[idx + 1].Value, ScriptPubKey |-> to]>>)

\* bc := NewBlockchain(from); tx := NewUTXOTransaction(from, to, amount, bc);
\* bc.MineBlock([]*Transaction{tx, next}) up to the end of NewBlock.
Call_MineBlock(from, to, amount, payee) ==
    /\ pc = "idle"
    /\ NewBlockchain = "ok"
    /\ IterateOK(blocks, l)
    /\ Cardinality(DOMAIN blocks) < MaxBlocks
    /\ LET s == FindSpendableOutputs(blocks, l, from, amount)
       IN /\ ~NotEnoughFunds(s.accumulated, amount)
          /\ \E order \in RangeOrders(s.unspentOutputs) :
                LET tx == NewUTXOTransaction(from, to, amount,
                                             s.accumulated, s.unspentOutputs, order)
                IN \E idx \in 0..(Len(tx.Vout) - 1), now \in Now :
                      LET transactions == <<tx, SpendOutputOf(tx, idx, payee)>>
                          blank == BlankBlock(transactions, l, now)
                      IN \E k \in RunNonces(blank) :
                            /\ newTx' = tx
                            /\ newBlock' = NewBlock(transactions, l, now, k)
                            /\ below' = below \cup RunBelow(blank, k)
                            /\ above' = above \cup RunAbove(blank, k)
    /\ cmd' = [NoCmd EXCEPT !.op = "MineBlock", !.from = from, !.to = to,
                            !.amount = amount]
    /\ tip' = l
    /\ txn' = [bucket |-> bucket, blocks |-> blocks, l |-> l]
    /\ result' = "running"
    /\ pc' = "mine_put"
    /\ UNCHANGED <<dbFile, bucket, blocks, l, out, miner, reader, pow>>

NextSeveral ==
    \/ \E address \in GenesisAddresses : CreateBlockchain_Open(address)
    \/ CreateBlockchain_Genesis
    \/ CreateBlockchain_PutBlock
    \/ CreateBlockchain_PutTip
    \/ CreateBlockchain_Commit
    \/ \E from, to \in Senders, amount \in Amounts : Send(from, to, amount)
    \/ MineBlock_NewBlock
    \/ \E from, to \in Senders, amount \in Amounts, payee \in Addresses :
            Call_MineBlock(from, to, amount, payee)
    \/ MineBlock_PutBlock
    \/ MineBlock_PutTip
    \/ MineBlock_Commit
    \/ \E address \in Addresses : GetBalance(address)
    \/ Exit

SpecSeveral == Init /\ [][NextSeveral]_vars

\* ------------------------------------------------------------------- claims
\* What getbalance reports for address on the committed chain.
Bal(address) == Balance(blocks, l, address)

\* The committed chain, newest block first.
Chain == Iterate(blocks, l, MaxBlocks + 1)

\* The block the committed tip names.
TipBlock == DeserializeBlock(blocks[l])

\* C1: the commit of a send from X to Y # X of an amount A <= balance(X)
\* raises balance(Y) by exactly A and lowers balance(X) by exactly A.
C1_SendMovesAmount ==
    [][(/\ MineBlock_Commit
        /\ cmd.from # cmd.to
        /\ cmd.amount > 0
        /\ Bal(cmd.from) >= cmd.amount)
       => (/\ Balance(blocks', l', cmd.to) = Bal(cmd.to) + cmd.amount
           /\ Balance(blocks', l', cmd.from) = Bal(cmd.from) - cmd.amount)]_vars

\* C2: a send of more than the sender's balance ends with InsufficientFunds
\* and leaves the stored blocks, the stored tip key and the tip as they were.
C2_InsufficientFundsLeavesStore ==
    [][(pc = "idle" /\ l \in DOMAIN blocks)
       => \/ /\ result' = "InsufficientFunds"
             /\ pc' = "exit"
             /\ tip' = tip
             /\ UNCHANGED <<dbFile, bucket, blocks, l>>
          \/ \A from \in Senders :
                LET balance == Bal(from)
                IN \A amount \in {a \in Amounts : a > balance}, to \in Senders :
                    ~Send(from, to, amount)]_vars

C2_Witness ==
    /\ result = "InsufficientFunds"
    /\ Len(Chain) >= 2

\* C3: right after createblockchain for X, and nothing else, the balance of
\* X is the subsidy 10 and the balance of every other address is 0.
C3_GenesisBalances ==
    [][CreateBlockchain_Commit
       => \A a \in Addresses :
            Balance(blocks', l', a) = IF a = cmd.address THEN subsidy ELSE 0]_vars

C3_Witness ==
    /\ pc = "exit"
    /\ result = "Done"
    /\ Len(Chain) = 1

\* C4: every block NewBlock returns validates, and its stored hash is the
\* hash of prepareData at its stored nonce.
C4_AssembledBlockValid ==
    pc \in {"create_put", "mine_put"}
    => /\ Validate(newBlock)
       /\ newBlock.Hash = Sha256(prepareData(newBlock, newBlock.Nonce))

\* C5: a mining attempt that exhausted the nonces is not persisted by
\* MineBlock: the stored tip never names a mined block whose proof-of-work
\* is invalid.
C5_TipPowValid ==
    /\ pc \in {"mine_put", "mine_puttip", "mine_commit"} => newBlock.Nonce < maxNonce
    /\ (l # <<>> /\ Len(TipBlock.PrevBlockHash) > 0) => Validate(TipBlock)

\* The walk from tip_ in store visits no block twice and ends at the only
\* block on it with empty PrevBlockHash.
WalkEndsAtGenesis(store, tip_) ==
    LET w == Iterate(store, tip_, MaxBlocks + 1)
    IN /\ IterateOK(store, tip_)
       /\ \A i, j \in 1..Len(w) : i # j => w[i].Hash # w[j].Hash
       /\ Cardinality({i \in 1..Len(w) : Len(w[i].PrevBlockHash) = 0}) = 1

\* C6: following PrevBlockHash from the tip visits no block twice and ends
\* at the one block with empty PrevBlockHash, in the committed store and in
\* the store as seen inside the open transaction.
C6_WalkEndsAtGenesis ==
    /\ l # <<>> => WalkEndsAtGenesis(blocks, l)
    /\ (txn.l # <<>> /\ txn.l \in DOMAIN txn.blocks) => WalkEndsAtGenesis(txn.blocks, txn.l)

C6_Witness ==
    /\ Len(Chain) >= 3
    /\ pc = "idle"

\* C7: at every point, also in the middle of a transaction and after a
\* crash, the stored tip key names a stored block.
C7_TipNamesStoredBlock ==
    l # <<>> => l \in DOMAIN blocks

C7_Witness ==
    /\ pc = "mine_commit"
    /\ txn.l # l
    /\ txn.l \notin DOMAIN blocks
    /\ l \in DOMAIN blocks


\* The blocks of the committed store.
StoredBlocks == {DeserializeBlock(blocks[h]) : h \in DOMAIN blocks}

\* A transaction with one stored field changed.
TamperedTx(tx) ==
    {[tx EXCEPT !.ID = Sha256(GobTx(<<>>, <<>>))]}
    \cup {[tx EXCEPT !.Vout[i].Value = v] :
            i \in 1..Len(tx.Vout), v \in 0..MaxAmount}
    \cup {[tx EXCEPT !.Vout[i].ScriptPubKey = a] :
            i \in 1..Len(tx.Vout), a \in Addresses}
    \cup {[tx EXCEPT !.Vin[i].ScriptSig = a] :
            i \in 1..Len(tx.Vin), a \in Addresses}
    \cup {[tx EXCEPT !.Vin[i].Vout = o] :
            i \in 1..Len(tx.Vin), o \in 0..1}

\* The blocks that differ from b in exactly one stored field.
Tampered(b) ==
    ({[b EXCEPT !.Timestamp = t] : t \in 0..(MaxTime + 1)}
     \cup {[b EXCEPT !.Nonce = n] : n \in Probed \cup {b.Nonce + 1, maxNonce}}
     \cup {[b EXCEPT !.PrevBlockHash = h] : h \in {<<>>, b.Hash} \cup DOMAIN blocks}
     \cup {[b EXCEPT !.Hash = h] : h \in {<<>>, b.PrevBlockHash} \cup DOMAIN blocks}
     \cup UNION {{[b EXCEPT !.Transactions[i] = t] : t \in TamperedTx(b.Transactions[i])} :
                    i \in 1..Len(b.Transactions)})
    \ {b}

\* C8: a validly mined stored block with any one stored field changed no
\* longer validates.
C8_TamperDetected ==
    \A b \in StoredBlocks : Validate(b) => \A c \in Tampered(b) : ~Validate(c)

\* C9: createblockchain on a bootstrapped store ends with AlreadyExists and
\* changes nothing stored; opening a store that was never bootstrapped ends
\* with NotFound and creates nothing.
C9_CreateTwiceOpenAbsent ==
    [][/\ (bucket /\ \E a \in GenesisAddresses : CreateBlockchain_Open(a))
          => (/\ result' = "AlreadyExists"
              /\ pc' = "exit"
              /\ UNCHANGED <<dbFile, bucket, blocks, l>>)
       /\ (~dbFile /\ (\/ \E from, to \in Senders, amount \in Amounts :
                               Send(from, to, amount)
                         \/ \E a \in Addresses : GetBalance(a)
                         \/ PrintChain))
          => (/\ result' = "NotFound"
              /\ pc' = "exit"
              /\ tip' = <<>>
              /\ UNCHANGED <<dbFile, bucket, blocks, l>>)]_vars

C9_Witness ==
    /\ result = "AlreadyExists"
    /\ l \in DOMAIN blocks

\* The addresses some output of a transaction on the committed chain is
\* locked to.
Recipients ==
    LET chain == Chain
    IN UNION {UNION {{chain[i].Transactions[j].Vout[k].ScriptPubKey :
                           k \in 1..Len(chain[i].Transactions[j].Vout)} :
                       j \in 1..Len(chain[i].Transactions)} :
               i \in 1..Len(chain)}

\* C10: an address no output on the chain is locked to has no UTXO and a
\* balance of 0.
C10_StrangerHasNothing ==
    l # <<>>
    => \A a \in Addresses \ Recipients :
        LET UTXOs == FindUTXO(blocks, l, a)
        IN UTXOs = <<>> /\ SumValues(UTXOs) = 0

C10_Witness ==
    /\ Len(Chain) >= 2
    /\ "B" \in Recipients
    /\ "C" \notin Recipients

\* The transactions on the committed chain, newest block first.
ChainTxs == Join([i \in 1..Len(Chain) |-> Chain[i].Transactions])

\* The positions <<t, o>> of the outputs on the committed chain: output o
\* (0-based) of transaction ChainTxs[t].
ChainOutputs ==
    UNION {{<<t, o>> : o \in 0..(Len(ChainTxs[t].Vout) - 1)} : t \in 1..Len(ChainTxs)}

\* The positions <<t, i>> of the inputs of the non-coinbase transactions on
\* the committed chain.
ChainInputs ==
    UNION {{<<t, i>> : i \in 1..Len(ChainTxs[t].Vin)} :
            t \in {u \in 1..Len(ChainTxs) : ~IsCoinbase(ChainTxs[u])}}

\* The inputs on the committed chain that reference output ref.
InputsOf(ref) ==
    {in \in ChainInputs :
        /\ ChainTxs[in[1]].Vin[in[2]].Txid = ChainTxs[ref[1]].ID
        /\ ChainTxs[in[1]].Vin[in[2]].Vout = ref[2]}

\* The outputs on the committed chain locked to address that no input on
\* the chain references.
UnspentOutputs(address) ==
    {ref \in ChainOutputs :
        /\ ChainTxs[ref[1]].Vout[ref[2] + 1].ScriptPubKey = address
        /\ InputsOf(ref) = {}}

\* How many times txo occurs in the sequence outs.
Occurrences(outs, txo) == Cardinality({i \in 1..Len(outs) : outs[i] = txo})

\* C11: FindUTXO(address) lists, each exactly once, precisely the outputs on
\* the chain that are locked to address and that no input on the chain
\* references.
C11_FindUTXOExact ==
    l \in DOMAIN blocks
    => \A a \in Addresses :
        LET UTXOs == FindUTXO(blocks, l, a)
            unspent == UnspentOutputs(a)
        IN /\ Len(UTXOs) = Cardinality(unspent)
           /\ \A ref \in unspent :
                LET txo == ChainTxs[ref[1]].Vout[ref[2] + 1]
                IN Occurrences(UTXOs, txo)
                   = Cardinality({r \in unspent : ChainTxs[r[1]].Vout[r[2] + 1] = txo})

\* The outputs <<t, o>> on the committed chain that the inputs of tx
\* reference, each once.
Consumed(tx) ==
    {ref \in ChainOutputs :
        \E i \in 1..Len(tx.Vin) :
            /\ tx.Vin[i].Txid = ChainTxs[ref[1]].ID
            /\ tx.Vin[i].Vout = ref[2]}

\* The total value of the outputs at the positions refs.
RECURSIVE ValueOf(_)
ValueOf(refs) ==
    IF refs = {} THEN 0
    ELSE LET ref == CHOOSE r \in refs : TRUE
         IN ChainTxs[ref[1]].Vout[ref[2] + 1].Value + ValueOf(refs \ {ref})

\* C12: the outputs of every non-coinbase transaction on the chain total at
\* most the value of the chain outputs its inputs consume, each consumed
\* output counted once.
C12_OutputsCoveredByInputs ==
    l \in DOMAIN blocks
    => \A t \in 1..Len(ChainTxs) :
        ~IsCoinbase(ChainTxs[t])
        => SumValues(ChainTxs[t].Vout) <= ValueOf(Consumed(ChainTxs[t]))

\* Input in references an output of a transaction in one of the blocks
\* older, and that output is locked to the input's ScriptSig.
ReferencesLockedOutput(in, older) ==
    \E b \in 1..Len(older) :
        \E t \in 1..Len(older[b].Transactions) :
            LET tx == older[b].Transactions[t]
            IN /\ tx.ID = in.Txid
               /\ in.Vout \in 0..(Len(tx.Vout) - 1)
               /\ tx.Vout[in.Vout + 1].ScriptPubKey = in.ScriptSig

\* C13: every input of every non-coinbase transaction that send builds or
\* has put on the chain references an output of a transaction in a block
\* that was on the chain before the transaction's block, and that output is
\* locked to the input's ScriptSig, the sender's address.
C13_InputsReferenceOwnedOutputs ==
    LET chain == Chain
    IN /\ pc = "mine_new"
          => \A i \in 1..Len(newTx.Vin) :
               /\ newTx.Vin[i].ScriptSig = cmd.from
               /\ ReferencesLockedOutput(newTx.Vin[i], chain)
       /\ l \in DOMAIN blocks
          => \A b \in 1..Len(chain) :
               \A t \in 1..Len(chain[b].Transactions) :
                   LET tx == chain[b].Transactions[t]
                   IN ~IsCoinbase(tx)
                      => \A i \in 1..Len(tx.Vin) :
                           ReferencesLockedOutput(tx.Vin[i], SubSeq(chain, b + 1, Len(chain)))

C13_Witness ==
    /\ pc = "idle"
    /\ Len(Chain) >= 3
    /\ \E b \in 1..Len(Chain) : Len(Chain[b].Transactions[1].Vin) >= 2

\* The hashes of the blocks on the walk from the committed tip.
ChainHashes == {Chain[i].Hash : i \in 1..Len(Chain)}

\* C14: once every MineBlock call on a shared handle has returned, calls that
\* overlapped in time included, every stored block is on the walk from the
\* tip, each block's PrevBlockHash being the hash of the block mined before
\* it: the calls took effect one after the other.
C14_OverlappingMinesSerialized ==
    (pc = "shared" /\ Mining = {} /\ l \in DOMAIN blocks)
        => /\ DOMAIN blocks = ChainHashes
           /\ \A i \in 1..(Len(Chain) - 1) : Chain[i].PrevBlockHash = Chain[i + 1].Hash

\* C15: a traversal started by Iterator() returns, newest first, exactly the
\* blocks of the chain under the tip it was started at, whatever MineBlock
\* does between its Next() calls: no Next() fails, and at the end the blocks
\* returned are the walk from that tip.
C15_TraversalOfOneTip ==
    /\ reader.pc # "panic"
    /\ reader.pc = "done" => reader.visited = Iterate(blocks, reader.start, MaxBlocks + 1)

\* Blocks a and b agree field by field; byte strings agree in length and
\* content, so an empty one and a missing one are the same.
SameBlock(a, b) ==
    /\ a.Timestamp = b.Timestamp
    /\ Len(a.PrevBlockHash) = Len(b.PrevBlockHash)
    /\ a.PrevBlockHash = b.PrevBlockHash
    /\ a.Hash = b.Hash
    /\ a.Nonce = b.Nonce
    /\ Len(a.Transactions) = Len(b.Transactions)
    /\ \A t \in 1..Len(a.Transactions) :
         /\ a.Transactions[t].ID = b.Transactions[t].ID
         /\ Len(a.Transactions[t].Vin) = Len(b.Transactions[t].Vin)
         /\ \A i \in 1..Len(a.Transactions[t].Vin) :
              /\ a.Transactions[t].Vin[i].Txid = b.Transactions[t].Vin[i].Txid
              /\ a.Transactions[t].Vin[i].Vout = b.Transactions[t].Vin[i].Vout
              /\ a.Transactions[t].Vin[i].ScriptSig = b.Transactions[t].Vin[i].ScriptSig
         /\ Len(a.Transactions[t].Vout) = Len(b.Transactions[t].Vout)
         /\ \A o \in 1..Len(a.Transactions[t].Vout) :
              /\ a.Transactions[t].Vout[o].Value = b.Transactions[t].Vout[o].Value
              /\ a.Transactions[t].Vout[o].ScriptPubKey = b.Transactions[t].Vout[o].ScriptPubKey

\* C16: every block the program builds, the genesis block included, comes
\* back from DeserializeBlock(Serialize(b)) equal to b field by field:
\* timestamp, transactions (ids, inputs and outputs in order), previous hash
\* (an empty one stays of length 0), hash and nonce.
C16_SerializeRoundTrip ==
    newBlock # <<>> => SameBlock(DeserializeBlock(Serialize(newBlock)), newBlock)

\* The genesis block, with its empty previous hash, empty input Txid and
\* nonce 0, has been serialized into the bucket.
C16_Witness ==
    /\ pc = "create_puttip"
    /\ newBlock.Hash \in DOMAIN txn.blocks
    /\ Len(newBlock.PrevBlockHash) = 0
    /\ newBlock.Nonce = 0
    /\ newBlock.Transactions[1].Vin[1].Txid = <<>>
    /\ DOMAIN txn.blocks[newBlock.Hash] # DOMAIN newBlock

RECURSIVE SumBal(_)
SumBal(as) ==
    IF as = {} THEN 0
    ELSE LET a == CHOOSE x \in as : TRUE IN Bal(a) + SumBal(as \ {a})

\* C17: after createblockchain and any sequence of sends, successful or
\* failed, the balances of all addresses add up to the subsidy: send mints
\* no coinbase, so no value is created or destroyed.
C17_BalancesSumToSubsidy ==
    (pc = "idle" /\ l \in DOMAIN blocks) => SumBal(Addresses) = subsidy

\* The output (txId, index) that input number ref[2] of transaction ref[1]
\* of the chain refers to.
Referenced(ref) ==
    <<ChainTxs[ref[1]].Vin[ref[2]].Txid, ChainTxs[ref[1]].Vin[ref[2]].Vout>>

\* C18: on the chain built by createblockchain and any sequence of sends, no
\* output (txId, index) is referenced by more than one input, neither twice
\* in one transaction nor by two transactions (no double spend).
C18_NoDoubleSpend ==
    l \in DOMAIN blocks
        => \A x, y \in ChainInputs : x # y => Referenced(x) # Referenced(y)

\* C19: the commit of a send from X to X of an amount A, 0 < A <= balance(X),
\* leaves balance(X) as it was, with or without a change output.
C19_SelfSendKeepsBalance ==
    [][(/\ MineBlock_Commit
        /\ cmd.from = cmd.to
        /\ cmd.amount > 0
        /\ Bal(cmd.from) >= cmd.amount)
       => Balance(blocks', l', cmd.from) = Bal(cmd.from)]_vars

\* The unspent outputs of address in scan order: newest block first, then
\* the order of the transactions in the block, then the output index.
UnspentInScanOrder(address) ==
    LET unspent == UnspentOutputs(address)
        all == Join([t \in 1..Len(ChainTxs) |->
                       [o \in 1..Len(ChainTxs[t].Vout) |-> <<t, o - 1>>]])
        refs == SelectSeq(all, LAMBDA ref : ref \in unspent)
    IN [i \in 1..Len(refs) |->
          [txID |-> HexEncodeToString(ChainTxs[refs[i][1]].ID),
           outIdx |-> refs[i][2],
           Value |-> ChainTxs[refs[i][1]].Vout[refs[i][2] + 1].Value]]

\* The sum of the values of the first n entries of txos.
PrefixSum(txos, n) == SumValues(SubSeq(txos, 1, n))

\* The length of the shortest prefix of txos worth at least amount, the
\* whole length when there is none.
ShortestPrefix(txos, amount) ==
    IF \E n \in 0..Len(txos) : PrefixSum(txos, n) >= amount
    THEN CHOOSE n \in 0..Len(txos) :
            /\ PrefixSum(txos, n) >= amount
            /\ \A k \in 0..(n - 1) : PrefixSum(txos, k) < amount
    ELSE Len(txos)

\* C20: FindSpendableOutputs(address, amount), amount > 0, chooses the
\* shortest prefix of the unspent outputs of address in scan order that is
\* worth at least amount, the whole sequence when it is worth less, and
\* accumulated is the sum of exactly the chosen outputs.
C20_SpendableIsShortestPrefix ==
    l \in DOMAIN blocks
        => \A address \in Addresses, amount \in 1..MaxAmount :
            LET txos == UnspentInScanOrder(address)
                prefix == SubSeq(txos, 1, ShortestPrefix(txos, amount))
                got == FindSpendableOutputs(blocks, l, address, amount)
            IN /\ got.accumulated = SumValues(prefix)
               /\ DOMAIN got.unspentOutputs = {prefix[i].txID : i \in 1..Len(prefix)}
               /\ \A k \in DOMAIN got.unspentOutputs :
                    LET mine == SelectSeq(prefix, LAMBDA c : c.txID = k)
                    IN got.unspentOutputs[k] = [i \in 1..Len(mine) |-> mine[i].outIdx]

\* How many inputs of tx reference output outIdx of the transaction txid.
InputsFor(tx, txid, outIdx) ==
    Cardinality({i \in 1..Len(tx.Vin) : tx.Vin[i].Txid = txid /\ tx.Vin[i].Vout = outIdx})

\* How many entries the map of chosen outputs holds.
RECURSIVE Chosen(_, _)
Chosen(validOutputs, keys) ==
    IF keys = {} THEN 0
    ELSE LET k == CHOOSE x \in keys : TRUE
         IN Len(validOutputs[k]) + Chosen(validOutputs, keys \ {k})

\* C21: the transaction NewUTXOTransaction(from, to, amount) returns has one
\* input per output FindSpendableOutputs chose, each with ScriptSig = from;
\* its first output is (amount, to); it has a second output
\* (accumulated - amount, from) exactly when accumulated > amount; it has no
\* other output.
C21_SpendShape ==
    pc = "mine_new"
        => LET s == FindSpendableOutputs(blocks, l, cmd.from, cmd.amount)
               validOutputs == s.unspentOutputs
           IN /\ Len(newTx.Vin) = Chosen(validOutputs, DOMAIN validOutputs)
              /\ \A i \in 1..Len(newTx.Vin) : newTx.Vin[i].ScriptSig = cmd.from
              /\ \A k \in DOMAIN validOutputs :
                   \A j \in 1..Len(validOutputs[k]) :
                      InputsFor(newTx, HexDecodeString(k), validOutputs[k][j])
                          = Occurrences(validOutputs[k], validOutputs[k][j])
              /\ newTx.Vout[1] = [Value |-> cmd.amount, ScriptPubKey |-> cmd.to]
              /\ Len(newTx.Vout) = IF s.accumulated > cmd.amount THEN 2 ELSE 1
              /\ s.accumulated > cmd.amount
                   => newTx.Vout[2] = [Value |-> s.accumulated - cmd.amount,
                                       ScriptPubKey |-> cmd.from]

\* A spend of several chosen outputs with a change output has been built.
C21_Witness ==
    /\ pc = "mine_new"
    /\ Len(newTx.Vin) >= 2
    /\ Len(newTx.Vout) = 2

\* C22: for every amount > 0, NewUTXOTransaction(from, to, amount) gets past
\* its funds check exactly when amount <= the balance FindUTXO gives for
\* from, and what FindSpendableOutputs can accumulate for an address is that
\* balance, no more and no less.  The committed chain changes only by a
\* commit, and every commit is followed by the state with no command running.
C22_SpendableIffBalance ==
    (pc = "idle" /\ l \in DOMAIN blocks)
        => \A from \in Addresses :
            LET balance == Bal(from)
            IN /\ \A amount \in 1..(balance + 1) :
                    ~NotEnoughFunds(FindSpendableOutputs(blocks, l, from, amount).accumulated,
                                    amount)
                        <=> amount <= balance
               /\ FindSpendableOutputs(blocks, l, from, balance + 1).accumulated = balance

\* Some sender holds several outputs on a chain with a spend on it.
C22_Witness ==
    /\ pc = "idle"
    /\ Len(Chain) >= 3
    /\ \E a \in Senders : Len(FindUTXO(blocks, l, a)) >= 2

\* C23: when Run stops at a nonce below maxNonce, that nonce is the least
\* n >= 0 whose digest sha256(prepareData(n)) is below the target, and the
\* hash returned is exactly that digest: no smaller nonce has a digest below
\* the target, also when the block was mined before.
C23_RunReturnsLeastNonce ==
    pow.pc = "return"
        => /\ pow.nonce < maxNonce
           /\ pow.hash = HashAt(pow.block, pow.nonce)
           /\ BelowTarget(pow.hash)
           /\ \A n \in 0..(pow.nonce - 1) :
                /\ ~BelowTarget(HashAt(pow.block, n))
                /\ HashAt(pow.block, n) \in above

\* Run has stopped at a nonce with two smaller nonces tried before it.
C23_Witness ==
    /\ pow.pc = "return"
    /\ pow.nonce >= 2

\* C24: when the commit inside MineBlock fails, the call aborts with the
\* stored tip key and the handle's bc.tip both still naming the block that
\* was the tip before the call, and with no new block in the bucket.
C24_FailedCommitAdvancesNothing ==
    pc = "mine_panic"
        => /\ l \in DOMAIN blocks
           /\ newBlock.PrevBlockHash = l
           /\ newBlock.Hash \notin DOMAIN blocks
           /\ tip = l

\* C25: after a createblockchain that was interrupted between bolt.Open and
\* its commit the database holds no chain data, so no later command ends
\* with AlreadyExists (createblockchain starts over) and none crashes on the
\* missing data (NewBlockchain reports that no blockchain was found).
C25_InterruptedCreateLeavesNoLedger ==
    (pc = "exit" /\ ~bucket) => result \notin {"AlreadyExists", "panic"}

\* C26: a MineBlock that commits adds exactly one entry to the bucket, under
\* the new block's hash, holding a block whose PrevBlockHash is the tip as it
\* was before the call; every entry stored before is unchanged byte for
\* byte, and the key "l" is the only one overwritten.
C26_MineBlockAppendsOneBlock ==
    [][MineBlock_Commit
       => (/\ newBlock.Hash \notin DOMAIN blocks
           /\ DOMAIN blocks' = DOMAIN blocks \cup {newBlock.Hash}
           /\ \A h \in DOMAIN blocks : blocks'[h] = blocks[h]
           /\ blocks'[newBlock.Hash] = Serialize(newBlock)
           /\ DeserializeBlock(blocks'[newBlock.Hash]).PrevBlockHash = l
           /\ l \in DOMAIN blocks
           /\ l' = newBlock.Hash)]_vars

\* A send has committed its block on a chain that already held a spend.
C26_Witness ==
    /\ pc = "exit"
    /\ result = "Success"
    /\ Cardinality(DOMAIN blocks) >= 3

\* C27: when createblockchain or MineBlock has completed, the handle's bc.tip
\* equals the stored key "l", which names the block just admitted; the key
\* changes at no other step; and a handle NewBlockchain returns, after any
\* sequence of createblockchain, sends, crashes and reopenings, has as its
\* tip the stored key, the hash of the block admitted last: the one stored
\* block that heads the chain of all stored blocks.
C27_HandleTipIsStoredTip ==
    [][/\ (CreateBlockchain_Commit \/ MineBlock_Commit)
          => (tip = l' /\ l' = newBlock.Hash)
       /\ l' # l
          => (pc \in {"create_commit", "mine_commit"} /\ result' \in {"Done", "Success"})
       /\ (pc = "idle" /\ pc' = "mine_new")
          => (/\ tip' = l
              /\ l' = l
              /\ Chain[1].Hash = l
              /\ DOMAIN blocks = ChainHashes)]_vars

\* NewBlockchain has returned a handle on a ledger that a send extended.
C27_Witness ==
    /\ pc = "mine_new"
    /\ Cardinality(DOMAIN blocks) >= 2
    /\ tip \in DOMAIN blocks

\* C28: the commands that only read (getbalance, printchain, and send up to
\* its call of MineBlock: NewBlockchain, Iterator and Next,
\* FindUnspentTransactions, FindUTXO, FindSpendableOutputs) leave the stored
\* blocks and the stored key "l" as they were, open no write that could
\* change them later, and leave bc.tip at the value NewBlockchain gave it.
\* These are the steps a process takes first, createblockchain excepted.
C28_ReadsLeaveLedger ==
    [][(/\ pc = "idle"
        /\ ~(\E address \in GenesisAddresses : CreateBlockchain_Open(address)))
       => (/\ blocks' = blocks
           /\ l' = l
           /\ bucket' = bucket
           /\ txn' = NoTxn
           /\ tip' \in {<<>>, l})]_vars

\* getbalance has printed a positive balance read from a chain with a spend.
C28_Witness ==
    /\ pc = "exit"
    /\ result = "ok"
    /\ out.balance > 0
    /\ Cardinality(DOMAIN blocks) >= 2

\* Input in has an empty Txid and the output index -1.
CoinbaseInput(in) == Len(in.Txid) = 0 /\ in.Vout = -1

\* C29: IsCoinbase holds for every transaction NewCoinbaseTX builds; a
\* transaction NewUTXOTransaction builds, on any chain and for any amount,
\* neither satisfies IsCoinbase nor has an input with an empty Txid and
\* output index -1.
C29_CoinbaseShape ==
    pc = "built"
        => /\ cmd.op = "NewCoinbaseTX" => IsCoinbase(newTx)
           /\ cmd.op = "NewUTXOTransaction"
                => /\ ~IsCoinbase(newTx)
                   /\ \A i \in 1..Len(newTx.Vin) : ~CoinbaseInput(newTx.Vin[i])

\* NewUTXOTransaction has built a spend of one output, the shape nearest to
\* a coinbase, whose single input names output 0 of a stored transaction.
C29_Witness ==
    /\ pc = "built"
    /\ cmd.op = "NewUTXOTransaction"
    /\ Len(newTx.Vin) = 1
    /\ newTx.Vin[1].Vout = 0
    /\ Cardinality(DOMAIN blocks) >= 2

\* C30: every output of every transaction NewCoinbaseTX or a successful
\* NewUTXOTransaction builds has a value >= 0, whatever integer amount
\* NewUTXOTransaction is called with, zero and negative ones included.
C30_OutputValuesNonNegative ==
    pc = "built" => \A o \in 1..Len(newTx.Vout) : newTx.Vout[o].Value >= 0

\* spentTXOs as FindUnspentTransactions(address) holds it when its scan
\* reaches transaction i of block b of chain (newest block first).
SpentWhenScanned(chain, b, i, address) ==
    ScanTxs(ScanBlocks([unspentTXs |-> <<>>, spentTXOs |-> <<>>],
                       SubSeq(chain, 1, b - 1), address),
            SubSeq(chain[b].Transactions, 1, i - 1), address).spentTXOs

\* tx is among the transactions FindUnspentTransactions(address) returns.
ListedUnspent(tx, address) ==
    LET unspentTXs == FindUnspentTransactions(blocks, l, address)
    IN \E u \in 1..Len(unspentTXs) : unspentTXs[u] = tx

\* C31: in a block MineBlock stored with several transactions, where an
\* input of a later transaction references an output of an earlier
\* transaction of the same block, FindUnspentTransactions takes that output
\* as spent: its Outputs loop does not append the earlier transaction for
\* that output, and when the output is the only one of that transaction the
\* signing address can unlock, neither FindUnspentTransactions nor FindUTXO
\* reports it.
C31_SameBlockSpendSeen ==
    (pc = "idle" /\ l \in DOMAIN blocks)
        => LET chain == Chain
           IN \A b \in 1..Len(chain) :
                LET txs == chain[b].Transactions
                IN \A i, j \in 1..Len(txs) :
                     i < j =>
                       \A n \in 1..Len(txs[j].Vin) :
                          LET input == txs[j].Vin[n]
                              owner == input.ScriptSig
                              earlier == txs[i]
                          IN (/\ input.Txid = earlier.ID
                              /\ input.Vout \in 0..(Len(earlier.Vout) - 1)
                              /\ CanBeUnlockedWith(earlier.Vout[input.Vout + 1], owner))
                             => LET open == UnspentIdx(earlier,
                                                SpentWhenScanned(chain, b, i, owner), owner)
                                IN /\ \A o \in 1..Len(open) : open[o] # input.Vout
                                   /\ Len(OutsOf(earlier, owner)) = 1
                                        => ~ListedUnspent(earlier, owner)

====
